---------------------------- MODULE Spec2Model ----------------------------
(***************************************************************************)
(* Model of SQM_GUI.py: the serial Connection Manager (connect_serial),    *)
(* the Reading Protocol Client (get_reading) and the Line Parser           *)
(* (parse_lux_sqm).                                                        *)
(*                                                                         *)
(* Text is a sequence of one-character strings, bytes on the wire are the  *)
(* same characters plus BadByte (a byte that is no valid UTF-8).           *)
(***************************************************************************)
EXTENDS Integers, Sequences, FiniteSets, TLC

VARIABLES
    ser,        \* the global `ser`: None or the port of the Serial object
    is_open,    \* ser.is_open (FALSE while ser is None)
    leaked,     \* Serial objects opened, never closed, no longer referenced
    status_var, \* the status line
    raw_var,    \* display field "Raw line"
    lux_var,    \* display field "LUX"
    sqm_var,    \* display field "SQM"
    dialog,     \* title of the messagebox the last handler showed, "" if none
    io,         \* serial calls made by the last handler, in order, and
                \* "SerialException" after the call that raised it
    rx,         \* bytes the last handler's readline() returned
    last,       \* the handler that ran last
    line_in,    \* argument of parse_lux_sqm (parser specification)
    parse_out,  \* result of the last parse_lux_sqm call
    calls       \* number of parse_lux_sqm calls made on line_in

vars == <<ser, is_open, leaked, status_var, raw_var, lux_var, sqm_var,
          dialog, io, rx, last, line_in, parse_out, calls>>

guiVars == <<ser, is_open, leaked, status_var, raw_var, lux_var, sqm_var,
             dialog, io, rx, last>>

parseVars == <<line_in, parse_out, calls>>

(***************************************************************************)
(* Bounds.                                                                 *)
(***************************************************************************)
MaxLeaked == 2      \* cap on the count of unreferenced open Serial objects
MaxCalls == 2       \* parse_lux_sqm calls on one input

(***************************************************************************)
(* Text helpers (Python str methods).                                      *)
(***************************************************************************)
None == "None"

BadByte == "\\xff"

Whitespace == {" ", "\n", "\r", "\t"}

Digits == {"0", "1", "3", "5", "6", "7"}

SubStr(s, i, j) == IF i > j THEN <<>> ELSE SubSeq(s, i, j)

\* bytes.decode("utf-8", errors="ignore"): invalid bytes are dropped
Decode(bytes) == SelectSeq(bytes, LAMBDA c : c /= BadByte)

\* str.strip()
Strip(s) ==
    LET keep == {i \in 1..Len(s) : s[i] \notin Whitespace}
    IN  IF keep = {} THEN <<>>
        ELSE LET lo == CHOOSE i \in keep : \A j \in keep : i <= j
                 hi == CHOOSE i \in keep : \A j \in keep : i >= j
             IN  SubSeq(s, lo, hi)

\* str.startswith(p)
StartsWith(s, p) == Len(s) >= Len(p) /\ SubSeq(s, 1, Len(p)) = p

\* p in s
Contains(s, p) ==
    \E i \in 1..(Len(s) - Len(p) + 1) : SubSeq(s, i, i + Len(p) - 1) = p

UpperChar(c) ==
    CASE c = "a" -> "A" [] c = "b" -> "B" [] c = "c" -> "C"
      [] c = "e" -> "E" [] c = "f" -> "F" [] c = "i" -> "I"
      [] c = "l" -> "L" [] c = "m" -> "M" [] c = "n" -> "N"
      [] c = "q" -> "Q" [] c = "s" -> "S" [] c = "u" -> "U"
      [] c = "x" -> "X" [] OTHER -> c

LowerChar(c) ==
    CASE c = "A" -> "a" [] c = "B" -> "b" [] c = "C" -> "c"
      [] c = "E" -> "e" [] c = "F" -> "f" [] c = "I" -> "i"
      [] c = "L" -> "l" [] c = "M" -> "m" [] c = "N" -> "n"
      [] c = "Q" -> "q" [] c = "S" -> "s" [] c = "U" -> "u"
      [] c = "X" -> "x" [] OTHER -> c

\* str.upper()
Upper(s) == [i \in 1..Len(s) |-> UpperChar(s[i])]

Lower(s) == [i \in 1..Len(s) |-> LowerChar(s[i])]

\* s.split(sep, 1): one part when sep is absent, else the text before the
\* first sep and the text after it
Split1(s, sep) ==
    LET at == {i \in 1..Len(s) : s[i] = sep}
    IN  IF at = {} THEN <<s>>
        ELSE LET k == CHOOSE i \in at : \A j \in at : i <= j
             IN  <<SubStr(s, 1, k - 1), SubStr(s, k + 1, Len(s))>>

(***************************************************************************)
(* float(text): Python accepts surrounding whitespace, a sign, a decimal   *)
(* literal with optional exponent and single underscores between digits,   *)
(* and the words nan, inf and infinity in any letter case.                 *)
(***************************************************************************)
IsDigitPart(s) ==
    /\ Len(s) > 0
    /\ \A i \in 1..Len(s) : s[i] \in Digits \cup {"_"}
    /\ s[1] /= "_"
    /\ s[Len(s)] /= "_"
    /\ \A i \in 1..(Len(s) - 1) : ~(s[i] = "_" /\ s[i + 1] = "_")

IsPointFloat(s) ==
    LET p == Split1(s, ".")
    IN  IF Len(p) = 1 THEN IsDigitPart(s)
        ELSE /\ p[1] = <<>> \/ IsDigitPart(p[1])
             /\ p[2] = <<>> \/ IsDigitPart(p[2])
             /\ ~(p[1] = <<>> /\ p[2] = <<>>)

Unsigned(s) == IF Len(s) > 0 /\ s[1] \in {"+", "-"} THEN Tail(s) ELSE s

IsDecimalLiteral(s) ==
    LET p == Split1(Lower(s), "e")
    IN  IF Len(p) = 1 THEN IsPointFloat(s)
        ELSE IsPointFloat(p[1]) /\ IsDigitPart(Unsigned(p[2]))

IsSpecialFloat(s) ==
    Lower(s) \in {<<"n", "a", "n">>, <<"i", "n", "f">>,
                  <<"i", "n", "f", "i", "n", "i", "t", "y">>}

\* TRUE iff float(text) returns, FALSE iff it raises ValueError
FloatAccepts(text) ==
    LET body == Unsigned(Strip(text))
    IN  IsSpecialFloat(body) \/ IsDecimalLiteral(body)

(***************************************************************************)
(* Line Parser.                                                            *)
(***************************************************************************)
LuxTag == <<"L", "U", "X", ":">>

SqmTag == <<"S", "Q", "M", ":">>

NanText == <<"N", "A", "N">>

Parsed(lux_str, sqm_str) ==
    [ok |-> TRUE, lux |-> lux_str, sqm |-> sqm_str, err |-> "none"]

ValueError(why) == [ok |-> FALSE, lux |-> <<>>, sqm |-> <<>>, err |-> why]

\* float(lux_str): no NaN exemption is coded, float() decides alone
LuxValid(lux_str) == FloatAccepts(lux_str)

\* if sqm_str.upper() != "NAN": float(sqm_str)
SqmValid(sqm_str) == Upper(sqm_str) = NanText \/ FloatAccepts(sqm_str)

\* mutation: the upper-cased text used for the NAN test is returned
ParseReturnUpper(lux_str, sqm_str) == Parsed(lux_str, Upper(sqm_str))

\* return lux_str, sqm_str
ParseReturn(lux_str, sqm_str) == Parsed(lux_str, sqm_str)

parse_lux_sqm(line) ==
    IF ~Contains(line, LuxTag) \/ ~Contains(line, SqmTag)
    THEN ValueError("markers")
    ELSE
    LET parts == Split1(line, ",")
    IN  IF Len(parts) /= 2 THEN ValueError("fields")
        ELSE
        LET lux_part == Strip(parts[1])
            sqm_part == Strip(parts[2])
        IN  IF ~StartsWith(lux_part, LuxTag) \/ ~StartsWith(sqm_part, SqmTag)
            THEN ValueError("prefix")
            ELSE
            LET lux_str == Strip(Split1(lux_part, ":")[2])
                sqm_str == Strip(Split1(sqm_part, ":")[2])
            IN  IF ~LuxValid(lux_str) THEN ValueError("lux")
                ELSE IF ~SqmValid(sqm_str) THEN ValueError("sqm")
                ELSE ParseReturn(lux_str, sqm_str)

(***************************************************************************)
(* Inputs: the texts a device can answer with.                             *)
(***************************************************************************)
Values ==
    { <<"5", ".", "6">>, <<"-", "3">>, <<"1", "e", "5">>, <<"1", "_", "0">>,
      <<"N", "a", "N">>, <<"n", "a", "n">>, <<"N", "A", "N">>,
      <<"i", "n", "f">>, <<"a", "b", "c">>, <<" ", "7">>, <<>> }

\* LUX:<a>,SQM:<b>
Form(a, b) == LuxTag \o a \o <<",">> \o SqmTag \o b

Malformed ==
    { <<>>,
      <<" ">>,
      <<"a", "b", "c">>,
      SqmTag \o <<"5", ".", "6", ",">> \o LuxTag \o <<"1">>,
      LuxTag \o <<"1", ";">> \o SqmTag \o <<"1">>,
      LuxTag \o <<"1">> \o SqmTag \o <<"1">>,
      LuxTag \o <<"1", ",", "6", ",">> \o SqmTag \o <<"1">>,
      LuxTag \o <<"1", ",">> \o SqmTag \o <<"1", ",", "5">>,
      <<"l", "u", "x", ":", "1", ",">> \o SqmTag \o <<"1">>,
      <<" ">> \o LuxTag \o <<"1", " ", ",", " ">> \o SqmTag \o <<" ", "1", " ">>,
      <<"x">> \o LuxTag \o <<"1", ",">> \o SqmTag \o <<"1">>,
      LuxTag \o <<":", "1", ",">> \o SqmTag \o <<"1">>,
      LuxTag \o <<"1", ",">> \o <<"x">> \o SqmTag \o <<"1">> }

Lines == {Form(a, b) : a \in Values, b \in Values} \cup Malformed

(***************************************************************************)
(* Parser specification: parse_lux_sqm called on one input, repeatedly.    *)
(***************************************************************************)
NotParsed == ValueError("not called")

NoData == <<"<", "n", "o", " ", "d", "a", "t", "a", ">">>

Sentinel == <<"-", "-">>

NotConnectedText == <<"Not connected">>

GuiInit ==
    /\ ser = None
    /\ is_open = FALSE
    /\ leaked = 0
    /\ status_var = NotConnectedText
    /\ raw_var = <<>>
    /\ lux_var = Sentinel
    /\ sqm_var = Sentinel
    /\ dialog = ""
    /\ io = <<>>
    /\ rx = <<>>
    /\ last = "init"

ParseIdle ==
    /\ line_in = <<>>
    /\ parse_out = NotParsed
    /\ calls = 0

ParseInit ==
    /\ GuiInit
    /\ line_in \in Lines
    /\ parse_out = NotParsed
    /\ calls = 0

ParseCall ==
    /\ calls < MaxCalls
    /\ parse_out' = parse_lux_sqm(line_in)
    /\ calls' = calls + 1
    /\ UNCHANGED <<line_in, guiVars>>

ParseNext == ParseCall

ParseSpec == ParseInit /\ [][ParseNext]_vars

(***************************************************************************)
(* Serial transport: what the device can answer and which ports the user   *)
(* can select ("" is the empty selection refresh_ports leaves when no port *)
(* is found).                                                              *)
(***************************************************************************)
Ports == {"COM3", "COM4"}

NoSelection == ""

Newline == <<"\n">>

\* readline() returns b"" on timeout, else the bytes up to the terminator
\* (or the bytes received so far when the timeout cuts a line short)
WireValues == {<<"5", ".", "6">>, <<"-", "3">>, <<"n", "a", "n">>, <<"a", "b", "c">>}

WireLines ==
    {Form(a, b) : a \in WireValues, b \in WireValues}
    \cup { <<>>,
           <<" ">>,
           <<"a", "b", "c">>,
           SqmTag \o <<"5", ".", "6", ",">> \o LuxTag \o <<"1">>,
           LuxTag \o <<"1", ";">> \o SqmTag \o <<"1">> }

Responses ==
    {<<>>}
    \cup {l \o Newline : l \in WireLines}
    \cup { <<"\r", "\n">>,
           <<BadByte, "\n">>,
           Form(<<"5", ".", "6">>, <<"N", "a", "N">>),
           <<BadByte>> \o Form(<<"1">>, <<"-", "3">>) \o <<"\r", "\n">> }

ConnectedText(port) == <<"Connected to", port>>

(***************************************************************************)
(* connect_serial                                                          *)
(***************************************************************************)
Raised == <<"SerialException">>

\* if ser and ser.is_open: ser.close()
ClosePrevious == IF ser /= None /\ is_open THEN <<"close">> ELSE <<>>

\* mutation: the handler does not clear the handle
SerKept == ser

\* except serial.SerialException: ser = None
SerAfterError == None

ConnectError(port, ops, opened) ==
    /\ ser' = SerAfterError
    /\ is_open' = FALSE
    /\ leaked' = leaked + (IF opened THEN 1 ELSE 0)
    /\ status_var' = NotConnectedText
    /\ dialog' = "Connection error"
    /\ io' = ops
    /\ rx' = <<>>
    /\ last' = "connect_serial"
    /\ UNCHANGED <<raw_var, lux_var, sqm_var, parseVars>>

\* serial.Serial(port, ...) raises SerialException
ConnectOpenFails ==
    \E port \in Ports \cup {NoSelection} :
        ConnectError(port, ClosePrevious \o <<"open">> \o Raised, FALSE)

\* the port opens, the later ser.reset_input_buffer() raises SerialException
ConnectResetFails ==
    \E port \in Ports :
        /\ leaked < MaxLeaked
        /\ ConnectError(port,
                        ClosePrevious \o <<"open", "reset_input_buffer">>
                            \o Raised, TRUE)

ConnectSucceeds ==
    \E port \in Ports :
        /\ ser' = port
        /\ is_open' = TRUE
        /\ status_var' = ConnectedText(port)
        /\ dialog' = ""
        /\ io' = ClosePrevious \o <<"open", "reset_input_buffer">>
        /\ rx' = <<>>
        /\ last' = "connect_serial"
        /\ UNCHANGED <<leaked, raw_var, lux_var, sqm_var, parseVars>>

connect_serial == ConnectSucceeds \/ ConnectOpenFails \/ ConnectResetFails

(***************************************************************************)
(* get_reading                                                             *)
(***************************************************************************)
\* mutation: only a closed handle is rejected, a missing one is used
NotConnectedClosedOnly == ser /= None /\ ~is_open

\* if ser is None or not ser.is_open
NotConnected == ser = None \/ ~is_open

\* mutation: the command is sent again and the line read again
ReadingOpsRetry ==
    <<"reset_input_buffer", "reset_output_buffer", "write", "flush", "readline",
      "write", "flush", "readline">>

\* the serial calls of one request, in program order
ReadingOps ==
    <<"reset_input_buffer", "reset_output_buffer", "write", "flush", "readline">>

\* ser.write(b"R\n")
Command == <<"R", "\n">>

\* if not line
IsNoData(line) == line = <<>>

\* mutation: the numeric fields keep their previous values
TimeoutDisplayStale == <<NoData, lux_var, sqm_var>>

\* mutation: the numeric fields keep their previous values
ParseErrorDisplayStale(line) == <<line, lux_var, sqm_var>>

\* mutation: the two values are shown in each other's field
ReadingDisplaySwapped(line, r) == <<line, r.sqm, r.lux>>

\* the three display fields <<raw, lux, sqm>> after each outcome
TimeoutDisplay == <<NoData, Sentinel, Sentinel>>

ParseErrorDisplay(line) == <<line, Sentinel, Sentinel>>

ReadingDisplay(line, r) == <<line, r.lux, r.sqm>>

GetReadingNotConnected ==
    /\ NotConnected
    /\ dialog' = "Not connected"
    /\ io' = <<>>
    /\ rx' = <<>>
    /\ last' = "get_reading"
    /\ UNCHANGED <<ser, is_open, leaked, status_var, raw_var, lux_var, sqm_var,
                   parseVars>>

\* one of the serial calls raises SerialException
GetReadingSerialError ==
    /\ ~NotConnected
    /\ \E k \in 1..Len(ReadingOps) : io' = SubSeq(ReadingOps, 1, k) \o Raised
    /\ dialog' = "Serial error"
    /\ rx' = <<>>
    /\ last' = "get_reading"
    /\ UNCHANGED <<ser, is_open, leaked, status_var, raw_var, lux_var, sqm_var,
                   parseVars>>

GetReadingResponse ==
    /\ ~NotConnected
    /\ \E bytes \in Responses :
        LET line == Strip(Decode(bytes))
            r == parse_lux_sqm(line)
            shown == IF IsNoData(line) THEN TimeoutDisplay
                     ELSE IF r.ok THEN ReadingDisplay(line, r)
                     ELSE ParseErrorDisplay(line)
        IN  /\ rx' = bytes
            /\ raw_var' = shown[1]
            /\ lux_var' = shown[2]
            /\ sqm_var' = shown[3]
            /\ dialog' = IF IsNoData(line) THEN "Timeout"
                         ELSE IF r.ok THEN "" ELSE "Parse error"
    /\ io' = ReadingOps
    /\ last' = "get_reading"
    /\ UNCHANGED <<ser, is_open, leaked, status_var, parseVars>>

get_reading ==
    GetReadingNotConnected \/ GetReadingSerialError \/ GetReadingResponse

(***************************************************************************)
(* The program: handlers run one at a time, on the user's button presses.  *)
(***************************************************************************)
Init == GuiInit /\ ParseIdle

Next == connect_serial \/ get_reading

Spec == Init /\ [][Next]_vars

(***************************************************************************)
(* Properties.                                                             *)
(***************************************************************************)
\* the serial calls in a trace, without the exception marker
SerialCalls(trace) == SelectSeq(trace, LAMBDA c : c /= "SerialException")

\* bytes put on the wire by the calls of a trace
BytesWritten(trace) ==
    Len(SelectSeq(trace, LAMBDA c : c = "write")) * Len(Command)

\* a decimal number written without surrounding whitespace; nan, inf and
\* infinity are not real numbers
IsRealNumberText(s) == s = Strip(s) /\ IsDecimalLiteral(Unsigned(s))

IsNanText(s) == Upper(s) = <<"N", "A", "N">>

IsPrefix(s, t) == Len(s) <= Len(t) /\ SubSeq(t, 1, Len(s)) = s

\* C1: a get-reading request made while no connection is open ends with the
\* not-connected warning and makes no serial call: nothing is written, no
\* buffer is reset, no read is issued.
C1_NotConnectedNoIO ==
    [][ ((ser = None \/ ~is_open) /\ last' = "get_reading")
        => /\ dialog' = "Not connected"
           /\ io' = <<>>
           /\ rx' = <<>>
           /\ BytesWritten(io') = 0 ]_vars

C1_Witness ==
    /\ last = "get_reading"
    /\ dialog = "Not connected"
    /\ ser = None
    /\ leaked > 0

\* C2: at most one serial connection is open at a time, and no port the
\* program opened stays open without being the current connection.
C2_SingleOwnedConnection ==
    /\ leaked = 0
    /\ leaked + (IF ser /= None /\ is_open THEN 1 ELSE 0) <= 1

\* C3: a connect attempt that fails with a connection error ends not
\* connected (handle cleared, status "Not connected"), and the next
\* get-reading request is rejected as not connected.
C3_FailedConnectNotConnected ==
    [][ /\ dialog' = "Connection error"
           => /\ ser' = None
              /\ ~is_open'
              /\ status_var' = <<"Not connected">>
        /\ (dialog = "Connection error" /\ last' = "get_reading")
           => (dialog' = "Not connected" /\ io' = <<>>) ]_vars

C3_Witness ==
    /\ dialog = "Connection error"
    /\ Len(io) > 0
    /\ Head(io) = "close"
    /\ ser = None

\* C4: the timeout outcome occurs only when readline returned no bytes; a
\* received line, also one that is empty after trimming, goes to the parser
\* and ends as a reading or a parse error.
C4_TimeoutOnlyWithoutBytes ==
    /\ dialog = "Timeout" => rx = <<>>
    /\ (last = "get_reading" /\ rx /= <<>>)
       => (dialog \in {"", "Parse error"} /\ raw_var = Strip(Decode(rx)))

\* C5: when readline returns nothing before the timeout, the display ends at
\* raw "<no data>", lux "--", sqm "--", the outcome is the timeout warning
\* and the connection stays open.
C5_TimeoutSentinels ==
    [][ ( /\ last' = "get_reading"
          /\ io' = <<"reset_input_buffer", "reset_output_buffer", "write",
                     "flush", "readline">>
          /\ rx' = <<>> )
        => /\ raw_var' = <<"<", "n", "o", " ", "d", "a", "t", "a", ">">>
           /\ lux_var' = <<"-", "-">>
           /\ sqm_var' = <<"-", "-">>
           /\ dialog' = "Timeout"
           /\ ser' = ser
           /\ ser' /= None
           /\ is_open' ]_vars

C5_Witness ==
    /\ last = "get_reading"
    /\ dialog = "Timeout"
    /\ rx = <<>>
    /\ raw_var = NoData
    /\ is_open

\* C6: when a line that is non-empty after trimming is received and the
\* parser rejects it, the raw field shows the trimmed line and both numeric
\* fields show "--".
C6_ParseErrorDisplay ==
    LET line == Strip(Decode(rx))
    IN  (last = "get_reading" /\ line /= <<>> /\ ~parse_lux_sqm(line).ok)
        => /\ raw_var = line
           /\ lux_var = <<"-", "-">>
           /\ sqm_var = <<"-", "-">>
           /\ dialog = "Parse error"

C6_Witness ==
    /\ last = "get_reading"
    /\ dialog = "Parse error"
    /\ parse_lux_sqm(raw_var).err = "sqm"
    /\ lux_var = Sentinel

\* C7: parse fails for every line whose lux candidate is not a real number
\* (NaN is allowed for sqm only).
C7_LuxMustBeReal ==
    (calls > 0 /\ parse_out.ok)
    => IsRealNumberText(Strip(Split1(Strip(Split1(line_in, ",")[1]), ":")[2]))

\* C8: for a line LUX:<a>,SQM:<b> with <a> a real-number text and <b> a
\* real-number text or NaN in any letter case, parse returns exactly
\* (<a>, <b>), on the first call and on every later one.
C8_ValidLineUnchanged ==
    \A a \in Values, b \in Values :
        ( /\ IsRealNumberText(a)
          /\ IsRealNumberText(b) \/ IsNanText(b)
          /\ line_in = LuxTag \o a \o <<",">> \o SqmTag \o b
          /\ calls > 0 )
        => (parse_out.ok /\ parse_out.lux = a /\ parse_out.sqm = b)

C8_Witness ==
    /\ calls = MaxCalls
    /\ line_in = Form(<<"5", ".", "6">>, <<"N", "a", "N">>)
    /\ parse_out.ok
    /\ parse_out.sqm = <<"N", "a", "N">>

\* C9: a get-reading request on an open connection makes its serial calls
\* in the order reset input, reset output, write, flush, readline, stopping
\* at a call that raises; the command is written at most once, and exactly
\* once when the request ends as reading, timeout or parse error.
C9_CallOrder ==
    [][ (ser /= None /\ is_open /\ last' = "get_reading")
        => /\ Len(io') > 0
           /\ IsPrefix(SerialCalls(io'),
                       <<"reset_input_buffer", "reset_output_buffer", "write",
                         "flush", "readline">>)
           /\ BytesWritten(io') <= Len(Command)
           /\ dialog' /= "Serial error"
              => /\ Len(io') = 5
                 /\ BytesWritten(io') = Len(Command) ]_vars

C9_Witness ==
    /\ last = "get_reading"
    /\ dialog = "Serial error"
    /\ io = <<"reset_input_buffer", "reset_output_buffer", "write", "flush",
              "readline", "SerialException">>

\* C10: the lux and sqm fields are both "--" or exactly the pair parse
\* returns for the line in the raw field; a communication error or a
\* not-connected rejection leaves the three fields unchanged.
DisplayConsistent(raw, lux, sqm) ==
    \/ lux = <<"-", "-">> /\ sqm = <<"-", "-">>
    \/ /\ parse_lux_sqm(raw).ok
       /\ lux = parse_lux_sqm(raw).lux
       /\ sqm = parse_lux_sqm(raw).sqm

C10_DisplayConsistent ==
    /\ DisplayConsistent(raw_var, lux_var, sqm_var)
    /\ [][ /\ DisplayConsistent(raw_var', lux_var', sqm_var')
           /\ dialog' \in {"Serial error", "Not connected"}
              => (raw_var' = raw_var /\ lux_var' = lux_var /\ sqm_var' = sqm_var)
        ]_vars

C10_Witness ==
    /\ dialog = "Serial error"
    /\ lux_var = <<"5", ".", "6">>
    /\ sqm_var = <<"-", "3">>
    /\ raw_var = Form(lux_var, sqm_var)

=============================================================================
